---- MODULE Spec2Model ----
(***************************************************************************)
(* The level-keyed message logger of src/core/logger/message.ts:           *)
(* create(config) resolves a configuration into a level -> sinks mapping   *)
(* and returns the emit closure, which fans a message out to the sinks of  *)
(* a level and aggregates their futures with Future.sequence.              *)
(*                                                                         *)
(* JavaScript strings that the code takes apart (descriptors) are          *)
(* sequences of one-character strings; level names are only compared and   *)
(* used as property keys, so they are atomic strings.                      *)
(***************************************************************************)
EXTENDS Naturals, Sequences, FiniteSets, TLC

VARIABLES phase, config, logger, error, calls, lastEvent, crashed

vars == <<phase, config, logger, error, calls, lastEvent, crashed>>

(***************************************************************************)
(* Bounds of the model.                                                    *)
(***************************************************************************)
\* descriptors and scalar values in one configuration (construction only)
MaxItems == 3
\* descriptors in one configuration of the full program
MaxSinks == 2
\* emit calls made on one dispatcher
MaxCalls == 2
\* sink operations started on one dispatcher
MaxOps == 4

(***************************************************************************)
(* JavaScript values.  Every value is a record [t, s, a]: its type tag,    *)
(* its characters when it is a string, its elements when it is an array.   *)
(***************************************************************************)
JsVal(t) == [t |-> t, s |-> <<>>, a |-> <<>>]
JsStr(chars) == [t |-> "string", s |-> chars, a |-> <<>>]
JsArr(elems) == [t |-> "array", s |-> <<>>, a |-> elems]
Undefined == JsVal("undefined")

stdoutName == <<"s","t","d","o","u","t">>
stderrName == <<"s","t","d","e","r","r">>
mongodbPrefix == <<"m","o","n","g","o","d","b",":">>
fluentdPrefix == <<"f","l","u","e","n","t","d",":">>

\* the values !config takes for true: undefined, null, false, 0, ''
Falsy(v) == \/ v.t \in {"undefined", "null", "false", "zero"}
            \/ v.t = "string" /\ v.s = <<>>

isString(v) == v.t = "string"

isArray(v) == v.t = "array"

\* String.prototype.substring(from, to) on a character sequence (0-based, to exclusive)
Substring(str, from, to) ==
  LET hi == IF to > Len(str) THEN Len(str) ELSE to
  IN SubSeq(str, from + 1, hi)

\* String.prototype.substring(from)
SubstringFrom(str, from) == SubSeq(str, from + 1, Len(str))

\* String.prototype.split(sep) for a one-character separator: every
\* occurrence of the separator cuts the string
RECURSIVE Split(_, _)
Split(str, sep) ==
  IF \A i \in 1..Len(str) : str[i] # sep
    THEN <<str>>
    ELSE LET i == CHOOSE k \in 1..Len(str) :
                    str[k] = sep /\ \A j \in 1..(k - 1) : str[j] # sep
         IN <<SubSeq(str, 1, i - 1)>> \o Split(SubSeq(str, i + 1, Len(str)), sep)

\* array[i] with a 0-based index: undefined past the end
At(parts, i) == IF i + 1 <= Len(parts) THEN JsStr(parts[i + 1]) ELSE Undefined

(***************************************************************************)
(* Sinks (IMessageLogger instances) and errors.                            *)
(***************************************************************************)
NoErr == [name |-> "none", msg |-> "none", value |-> Undefined, level |-> "none"]

\* util.format('Cannot set logger: %j is not valid option for %j', value, level)
InvalidOption(value, level) ==
  [name |-> "Error", msg |-> "is not valid option", value |-> value, level |-> level]

\* new Error('Cannot set logger: collection cannot be an empty string')
EmptyCollection ==
  [name |-> "Error", msg |-> "collection cannot be an empty string",
   value |-> Undefined, level |-> "none"]

\* the engine's error for method.substring on a value that has no such method
NotAFunction == [name |-> "TypeError", msg |-> "substring is not a function",
                 value |-> Undefined, level |-> "none"]

NoSink == [kind |-> "none", level |-> "none", collectionName |-> <<>>,
           host |-> Undefined, port |-> Undefined]

Threw(err) == [ok |-> FALSE, sink |-> NoSink, err |-> err]

Made(sink) == [ok |-> TRUE, sink |-> sink, err |-> NoErr]

StdoutLogger(level) == Made([NoSink EXCEPT !.kind = "stdout", !.level = level])

StderrLogger(level) == Made([NoSink EXCEPT !.kind = "stderr", !.level = level])

MongodbLoggerEmptyOk(level, collectionName) ==
  Made([NoSink EXCEPT !.kind = "mongodb", !.level = level,
                      !.collectionName = collectionName])

MongodbLogger(level, collectionName) ==
  IF collectionName = <<>>
    THEN Threw(EmptyCollection)
    ELSE Made([NoSink EXCEPT !.kind = "mongodb", !.level = level,
                             !.collectionName = collectionName])

FluentdLogger(level, host, port) ==
  Made([NoSink EXCEPT !.kind = "fluentd", !.level = level,
                      !.host = host, !.port = port])

getLoggerByMethodDefaultsToStdout(method, level) ==
  IF method.t = "string" /\ method.s = stdoutName THEN StdoutLogger(level)
  ELSE IF method.t = "string" /\ method.s = stderrName THEN StderrLogger(level)
  ELSE IF method.t # "string" THEN Threw(NotAFunction)
  ELSE IF Substring(method.s, 0, Len(mongodbPrefix)) = mongodbPrefix
    THEN MongodbLogger(level, SubstringFrom(method.s, Len(mongodbPrefix)))
  ELSE IF Substring(method.s, 0, Len(fluentdPrefix)) = fluentdPrefix
    THEN LET hostAndPort == Split(SubstringFrom(method.s, Len(fluentdPrefix)), ":")
         IN FluentdLogger(level, At(hostAndPort, 0), At(hostAndPort, 1))
  ELSE StdoutLogger(level)

getLoggerByMethodOneLevel(method, level) ==
  IF method.t = "string" /\ method.s = stdoutName THEN StdoutLogger("info")
  ELSE IF method.t = "string" /\ method.s = stderrName THEN StderrLogger("info")
  ELSE IF method.t # "string" THEN Threw(NotAFunction)
  ELSE IF Substring(method.s, 0, Len(mongodbPrefix)) = mongodbPrefix
    THEN MongodbLogger("info", SubstringFrom(method.s, Len(mongodbPrefix)))
  ELSE IF Substring(method.s, 0, Len(fluentdPrefix)) = fluentdPrefix
    THEN LET hostAndPort == Split(SubstringFrom(method.s, Len(fluentdPrefix)), ":")
         IN FluentdLogger("info", At(hostAndPort, 0), At(hostAndPort, 1))
  ELSE Threw(InvalidOption(method, level))

getLoggerByMethod(method, level) ==
  IF method.t = "string" /\ method.s = stdoutName THEN StdoutLogger(level)
  ELSE IF method.t = "string" /\ method.s = stderrName THEN StderrLogger(level)
  ELSE IF method.t # "string" THEN Threw(NotAFunction)
  ELSE IF Substring(method.s, 0, Len(mongodbPrefix)) = mongodbPrefix
    THEN MongodbLogger(level, SubstringFrom(method.s, Len(mongodbPrefix)))
  ELSE IF Substring(method.s, 0, Len(fluentdPrefix)) = fluentdPrefix
    THEN LET hostAndPort == Split(SubstringFrom(method.s, Len(fluentdPrefix)), ":")
         IN FluentdLogger(level, At(hostAndPort, 0), At(hostAndPort, 1))
  ELSE Threw(InvalidOption(method, level))

(***************************************************************************)
(* create: configuration resolution.  A configuration is the sequence of   *)
(* its own [level, value] properties in enumeration order; the mapping is  *)
(* a function from the levels that have an own property to sink lists.     *)
(***************************************************************************)
NoLoggers == [l \in {} |-> <<>>]

RECURSIVE mapMethodsReversed(_, _, _, _)
mapMethodsReversed(methods, level, i, acc) ==
  IF i > Len(methods)
    THEN [ok |-> TRUE, sinks |-> acc, err |-> NoErr]
    ELSE LET r == getLoggerByMethod(methods[i], level)
         IN IF r.ok
              THEN mapMethodsReversed(methods, level, i + 1, <<r.sink>> \o acc)
              ELSE [ok |-> FALSE, sinks |-> <<>>, err |-> r.err]

\* config.map(method => getLoggerByMethod(method, level)): left to right,
\* the first throw ends the map
RECURSIVE mapMethods(_, _, _, _)
mapMethods(methods, level, i, acc) ==
  IF i > Len(methods)
    THEN [ok |-> TRUE, sinks |-> acc, err |-> NoErr]
    ELSE LET r == getLoggerByMethod(methods[i], level)
         IN IF r.ok
              THEN mapMethods(methods, level, i + 1, Append(acc, r.sink))
              ELSE [ok |-> FALSE, sinks |-> <<>>, err |-> r.err]

Skipped == [ok |-> TRUE, set |-> FALSE, sinks |-> <<>>, err |-> NoErr]

Assigned(sinks) == [ok |-> TRUE, set |-> TRUE, sinks |-> sinks, err |-> NoErr]

Rejected(err) == [ok |-> FALSE, set |-> FALSE, sinks |-> <<>>, err |-> err]

resolveLevelEntryForFalsy(value, level) ==
  IF Falsy(value) THEN Assigned(<<>>)
  ELSE IF isString(value)
    THEN LET r == getLoggerByMethod(value, level)
         IN IF r.ok THEN Assigned(<<r.sink>>) ELSE Rejected(r.err)
  ELSE IF isArray(value)
    THEN LET r == mapMethods(value.a, level, 1, <<>>)
         IN IF r.ok THEN Assigned(r.sinks) ELSE Rejected(r.err)
  ELSE Rejected(InvalidOption(value, level))

\* the iteratee of _.map(config, ...): what one level's value does to the mapping
resolveLevel(value, level) ==
  IF Falsy(value) THEN Skipped
  ELSE IF isString(value)
    THEN LET r == getLoggerByMethod(value, level)
         IN IF r.ok THEN Assigned(<<r.sink>>) ELSE Rejected(r.err)
  ELSE IF isArray(value)
    THEN LET r == mapMethods(value.a, level, 1, <<>>)
         IN IF r.ok THEN Assigned(r.sinks) ELSE Rejected(r.err)
  ELSE Rejected(InvalidOption(value, level))

Built(map) == [ok |-> TRUE, logger |-> map, err |-> NoErr]

Aborted(err) == [ok |-> FALSE, logger |-> NoLoggers, err |-> err]

\* logger[level] = sinks
SetLevel(map, level, sinks) ==
  [l \in DOMAIN map \cup {level} |-> IF l = level THEN sinks ELSE map[l]]

RECURSIVE createSkippingInvalid(_, _, _)
createSkippingInvalid(cfg, i, map) ==
  IF i > Len(cfg)
    THEN Built(map)
    ELSE LET r == resolveLevel(cfg[i].value, cfg[i].level)
         IN IF r.ok /\ r.set
              THEN createSkippingInvalid(cfg, i + 1, SetLevel(map, cfg[i].level, r.sinks))
              ELSE createSkippingInvalid(cfg, i + 1, map)

\* _.map over the configuration's properties; a throw of the iteratee leaves
\* create before the emit closure is returned
RECURSIVE create(_, _, _)
create(cfg, i, map) ==
  IF i > Len(cfg)
    THEN Built(map)
    ELSE LET r == resolveLevel(cfg[i].value, cfg[i].level)
         IN IF ~r.ok THEN Aborted(r.err)
            ELSE IF r.set
              THEN create(cfg, i + 1, SetLevel(map, cfg[i].level, r.sinks))
              ELSE create(cfg, i + 1, map)

(***************************************************************************)
(* Configurations the model constructs dispatchers from.                   *)
(***************************************************************************)
ConfigLevels == {"info", "error"}

FalsyValues == {JsVal("undefined"), JsVal("null"), JsVal("false"), JsVal("zero"), JsStr(<<>>)}

\* truthy values that are neither a string nor an array
OtherValues == {JsVal("number"), JsVal("true"), JsVal("object")}

Descriptors ==
  { stdoutName, stderrName,
    mongodbPrefix, mongodbPrefix \o <<"l","o","g">>,
    fluentdPrefix \o <<"h",":","1">>, fluentdPrefix \o <<"h",":","1",":","2">>,
    fluentdPrefix \o <<"h">>, <<"m","o","n","g","o","d","b">> }

DescriptorValues == {JsStr(d) : d \in Descriptors}

\* array elements: descriptor strings, the empty string, and non-strings
ElementValues == DescriptorValues \cup {JsStr(<<>>), JsVal("number")}

ArraysOf(elems, n) == UNION {{JsArr(f) : f \in [1..k -> elems]} : k \in 0..n}

\* descriptors and scalars a value contributes to the size of a configuration
Items(v) == IF v.t = "array" THEN Len(v.a) ELSE 1

ValuesUpTo(scalars, elems, n) ==
  IF n = 0 THEN {JsArr(<<>>)} ELSE scalars \cup ArraysOf(elems, n)

Entry(level, value) == [level |-> level, value |-> value]

\* the two enumeration orders of a configuration with both levels
LevelOrders == {<<"info", "error">>, <<"error", "info">>}

\* cfg is a configuration of at most n items: no property, one, or two in
\* one of the given enumeration orders
IsConfigOver(cfg, scalars, elems, n, orders) ==
  \/ cfg = <<>>
  \/ \E l \in ConfigLevels, v \in ValuesUpTo(scalars, elems, n) : cfg = <<Entry(l, v)>>
  \/ \E o \in orders, v1 \in ValuesUpTo(scalars, elems, n) :
       \E v2 \in ValuesUpTo(scalars, elems, n - Items(v1)) :
         cfg = <<Entry(o[1], v1), Entry(o[2], v2)>>

(***************************************************************************)
(* Construction on its own: create applied to every configuration.         *)
(***************************************************************************)
NoEvent == "none"

InitCreate ==
  /\ phase = "constructing"
  /\ IsConfigOver(config, FalsyValues \cup OtherValues \cup DescriptorValues,
                  ElementValues, MaxItems, LevelOrders)
  /\ logger = NoLoggers
  /\ error = NoErr
  /\ calls = <<>>
  /\ lastEvent = NoEvent
  /\ crashed = FALSE

Create ==
  /\ phase = "constructing"
  /\ LET r == create(config, 1, NoLoggers)
     IN /\ phase' = IF r.ok THEN "ready" ELSE "failed"
        /\ logger' = r.logger
        /\ error' = r.err
  /\ UNCHANGED <<config, calls, lastEvent, crashed>>

NextCreate == Create

SpecCreate == InitCreate /\ [][NextCreate]_vars

(***************************************************************************)
(* emit: the closure create returns.                                       *)
(***************************************************************************)
\* property names every object literal inherits from Object.prototype
ObjectPrototypeKeys ==
  {"constructor", "toString", "toLocaleString", "valueOf", "hasOwnProperty",
   "isPrototypeOf", "propertyIsEnumerable"}

\* logger[level]: the own property, else the inherited one, else undefined
Get(map, key) ==
  IF key \in DOMAIN map THEN [t |-> "array", sinks |-> map[key]]
  ELSE IF key \in ObjectPrototypeKeys THEN [t |-> "function", sinks |-> <<>>]
  ELSE [t |-> "undefined", sinks |-> <<>>]

NoFailure == [call |-> 0, op |-> 0]

\* the failure a sink's log operation reports: an error object of its own
FailureOf(c, i) == [call |-> c, op |-> i]

Pending == [state |-> "pending", err |-> NoFailure]

Succeeded == [state |-> "success", err |-> NoFailure]

Failed(err) == [state |-> "failed", err |-> err]

\* the future sink.log returns: Future.successful for the console sinks,
\* Future.denodify over the insert or the sender's emit for the others
log(sink) ==
  [kind |-> sink.kind, level |-> sink.level,
   state |-> IF sink.kind \in {"stdout", "stderr"} THEN "ok" ELSE "inflight",
   err |-> NoFailure]

AllOk(ops) == \A i \in 1..Len(ops) : ops[i].state = "ok"

FutureSequenceAnyOk(prev, ops, i) ==
  IF prev.state # "pending" THEN prev
  ELSE IF ops[i].state = "failed" THEN Failed(ops[i].err)
  ELSE IF ops[i].state = "ok" THEN Succeeded
  ELSE prev

FutureSequenceWaitsForAll(prev, ops, i) ==
  IF prev.state # "pending" THEN prev
  ELSE IF \E j \in 1..Len(ops) : ops[j].state = "inflight" THEN prev
  ELSE IF AllOk(ops) THEN Succeeded
  ELSE Failed(ops[i].err)

FutureSequenceOnLastIndex(prev, ops, i) ==
  IF prev.state # "pending" THEN prev
  ELSE IF ops[i].state = "failed" THEN Failed(ops[i].err)
  ELSE IF i = Len(ops) /\ AllOk(ops) THEN Succeeded
  ELSE prev

\* Future.sequence(logging), when the future of sink i settles: the first
\* failure fails the aggregate with that failure, the last success fulfils it
FutureSequence(prev, ops, i) ==
  IF prev.state # "pending" THEN prev
  ELSE IF ops[i].state = "failed" THEN Failed(ops[i].err)
  ELSE IF AllOk(ops) THEN Succeeded
  ELSE prev

\* Future.sequence(logging) over the futures as log returned them
FutureSequenceStart(ops) == IF AllOk(ops) THEN Succeeded ELSE Pending

StartOrderDescending(n, i) == n + 1 - i

\* loggers.map(...): the callback runs on the elements in ascending index
\* order, so the sink at index i is the i-th whose log is called
StartOrder(n, i) == i

\* the future of a log call, with its place among the log calls of the emit
Started(future, seq) ==
  [kind |-> future.kind, level |-> future.level, state |-> future.state,
   err |-> future.err, seq |-> seq]

emitWithFirstSinkOnly(loggers, level) ==
  IF loggers.t = "undefined"
    THEN [level |-> level, ops |-> <<>>, returned |-> "success", signal |-> Succeeded]
  ELSE IF loggers.t # "array"
    THEN [level |-> level, ops |-> <<>>, returned |-> "TypeError",
          signal |-> [state |-> "none", err |-> NoFailure]]
  ELSE LET logging == [i \in 1..(IF Len(loggers.sinks) = 0 THEN 0 ELSE 1) |->
                         Started(log(loggers.sinks[i]), i)]
       IN [level |-> level, ops |-> logging, returned |-> "pending",
           signal |-> FutureSequenceStart(logging)]

emitWith(loggers, level) ==
  IF loggers.t = "undefined"
    THEN [level |-> level, ops |-> <<>>, returned |-> "success", signal |-> Succeeded]
  ELSE IF loggers.t # "array"
    THEN [level |-> level, ops |-> <<>>, returned |-> "TypeError",
          signal |-> [state |-> "none", err |-> NoFailure]]
  ELSE LET logging == [i \in 1..Len(loggers.sinks) |->
                         Started(log(loggers.sinks[i]),
                                 StartOrder(Len(loggers.sinks), i))]
       IN [level |-> level, ops |-> logging, returned |-> "pending",
           signal |-> FutureSequenceStart(logging)]

\* emit(level, message, args) up to the end of the caller's turn
emit(map, level) == emitWith(Get(map, level), level)

\* the sender's 'error' listener: TRUE when it rethrows the event
onErrorThrowsUnlessReset(code) == ~(code = "ECONNRESET")

onErrorThrows(code) == ~(code = "ECONNRESET" \/ code = "ECONNREFUSED")

listenerRegistrationOnce == "once"

\* this.logger.on('error', ...): how the constructor registers the listener
listenerRegistration == "on"

\* the listener is still registered when an event comes after the event
\* last: on keeps it, once removes it at its first call
ListenerActive(registration, last) == registration = "on" \/ last = "none"

(***************************************************************************)
(* The program: construction, emit calls, completions of the sinks'        *)
(* operations, and 'error' events of the senders.                          *)
(***************************************************************************)
EmitLevels == ConfigLevels \cup {"constructor"}

ErrorCodes == {"ECONNRESET", "ECONNREFUSED", "EPIPE"}

SinkDescriptorValues ==
  {JsStr(stdoutName), JsStr(mongodbPrefix), JsStr(mongodbPrefix \o <<"l","o","g">>),
   JsStr(fluentdPrefix \o <<"h",":","1">>)}

Init ==
  /\ phase = "constructing"
  /\ \/ IsConfigOver(config, {Undefined} \cup SinkDescriptorValues,
                     SinkDescriptorValues, MaxSinks, {<<"info", "error">>})
     \/ \E l \in EmitLevels, v \in FalsyValues : config = <<Entry(l, v)>>
  /\ logger = NoLoggers
  /\ error = NoErr
  /\ calls = <<>>
  /\ lastEvent = NoEvent
  /\ crashed = FALSE

RECURSIVE OpsStarted(_)
OpsStarted(cs) == IF cs = <<>> THEN 0 ELSE Len(Head(cs).ops) + OpsStarted(Tail(cs))

EmitCachingLevel(level) ==
  /\ phase = "ready"
  /\ ~crashed
  /\ Len(calls) < MaxCalls
  /\ OpsStarted(Append(calls, emit(logger, level))) <= MaxOps
  /\ calls' = Append(calls, emit(logger, level))
  /\ logger' = IF Get(logger, level).t = "undefined"
                THEN [l \in DOMAIN logger \cup {level} |->
                        IF l \in DOMAIN logger THEN logger[l] ELSE <<>>]
                ELSE logger
  /\ UNCHANGED <<phase, config, error, lastEvent, crashed>>

Emit(level) ==
  /\ phase = "ready"
  /\ ~crashed
  /\ Len(calls) < MaxCalls
  /\ OpsStarted(Append(calls, emit(logger, level))) <= MaxOps
  /\ calls' = Append(calls, emit(logger, level))
  /\ UNCHANGED <<phase, config, logger, error, lastEvent, crashed>>

\* the callback of sink i's operation in call c reports success
CompleteOp(c, i) ==
  /\ ~crashed
  /\ c \in 1..Len(calls)
  /\ i \in 1..Len(calls[c].ops)
  /\ calls[c].ops[i].state = "inflight"
  /\ LET ops == [calls[c].ops EXCEPT ![i].state = "ok"]
     IN calls' = [calls EXCEPT ![c].ops = ops,
                               ![c].signal = FutureSequence(calls[c].signal, ops, i)]
  /\ UNCHANGED <<phase, config, logger, error, lastEvent, crashed>>

FailOpFailsAll(c, i) ==
  /\ ~crashed
  /\ c \in 1..Len(calls)
  /\ i \in 1..Len(calls[c].ops)
  /\ calls[c].ops[i].state = "inflight"
  /\ calls' = [d \in 1..Len(calls) |->
                IF d = c
                  THEN [calls[c] EXCEPT
                          !.ops = [calls[c].ops EXCEPT ![i].state = "failed",
                                                       ![i].err = FailureOf(c, i)],
                          !.signal = IF calls[c].signal.state = "pending"
                                       THEN Failed(FailureOf(c, i))
                                       ELSE calls[c].signal]
                ELSE IF calls[d].signal.state = "pending"
                  THEN [calls[d] EXCEPT !.signal = Failed(FailureOf(c, i))]
                ELSE calls[d]]
  /\ UNCHANGED <<phase, config, logger, error, lastEvent, crashed>>

\* the callback of sink i's operation in call c reports an error
FailOp(c, i) ==
  /\ ~crashed
  /\ c \in 1..Len(calls)
  /\ i \in 1..Len(calls[c].ops)
  /\ calls[c].ops[i].state = "inflight"
  /\ LET ops == [calls[c].ops EXCEPT ![i].state = "failed", ![i].err = FailureOf(c, i)]
     IN calls' = [calls EXCEPT ![c].ops = ops,
                               ![c].signal = FutureSequence(calls[c].signal, ops, i)]
  /\ UNCHANGED <<phase, config, logger, error, lastEvent, crashed>>

\* the sender of a fluentd sink emits 'error' with err.code = code, at any
\* time and any number of times; lastEvent is the code of the latest event
SenderError(code) ==
  /\ phase = "ready"
  /\ ~crashed
  /\ \E l \in DOMAIN logger : \E i \in 1..Len(logger[l]) : logger[l][i].kind = "fluentd"
  /\ lastEvent' = code
  /\ crashed' = IF ListenerActive(listenerRegistration, lastEvent)
                  THEN onErrorThrows(code)
                  ELSE TRUE
  /\ UNCHANGED <<phase, config, logger, error, calls>>

Next ==
  \/ Create
  \/ \E level \in EmitLevels : Emit(level)
  \/ \E c \in 1..MaxCalls, i \in 1..MaxSinks : CompleteOp(c, i)
  \/ \E c \in 1..MaxCalls, i \in 1..MaxSinks : FailOp(c, i)
  \/ \E code \in ErrorCodes : SenderError(code)

Spec == Init /\ [][Next]_vars

(***************************************************************************)
(* The program when every operation a sink has started is completed: the   *)
(* callback of an insert or of a sender's emit that is in flight is        *)
(* eventually called, with or without an error.  The senders raise no      *)
(* 'error' event here, so the process does not end.                        *)
(***************************************************************************)
NextCompleting ==
  \/ Create
  \/ \E level \in EmitLevels : Emit(level)
  \/ \E c \in 1..MaxCalls, i \in 1..MaxSinks : CompleteOp(c, i)
  \/ \E c \in 1..MaxCalls, i \in 1..MaxSinks : FailOp(c, i)

SpecCompleting ==
  /\ Init
  /\ [][NextCompleting]_vars
  /\ \A c \in 1..MaxCalls, i \in 1..MaxSinks : WF_vars(CompleteOp(c, i) \/ FailOp(c, i))

(***************************************************************************)
(* The program with a caller that goes on changing the configuration       *)
(* object after create has returned.  Here config is the object as it is   *)
(* now; create stored arrays of its own (lines 131 and 137) in the local   *)
(* logger, so the object is not read again.                                *)
(***************************************************************************)
RemoveAt(seq, k) == [j \in 1..(Len(seq) - 1) |-> IF j < k THEN seq[j] ELSE seq[j + 1]]

\* delete config[level] on the k-th property, after construction
Reconfigure(k) ==
  /\ phase = "ready"
  /\ ~crashed
  /\ k \in 1..Len(config)
  /\ config' = RemoveAt(config, k)
  /\ UNCHANGED <<phase, logger, error, calls, lastEvent, crashed>>

NextReconfigure ==
  \/ Create
  \/ \E level \in EmitLevels : Emit(level)
  \/ \E c \in 1..MaxCalls, i \in 1..MaxSinks : CompleteOp(c, i)
  \/ \E c \in 1..MaxCalls, i \in 1..MaxSinks : FailOp(c, i)
  \/ \E k \in 1..2 : Reconfigure(k)

SpecReconfigure == Init /\ [][NextReconfigure]_vars

(***************************************************************************)
(* Vocabulary of the properties: the items of a configuration in the       *)
(* order create meets them, and what the specification calls invalid.      *)
(***************************************************************************)
HasPrefix(str, prefix) ==
  /\ Len(str) >= Len(prefix)
  /\ \A i \in 1..Len(prefix) : str[i] = prefix[i]

DropPrefix(str, prefix) == [j \in 1..(Len(str) - Len(prefix)) |-> str[j + Len(prefix)]]

Recognised(d) ==
  \/ d = stdoutName
  \/ d = stderrName
  \/ HasPrefix(d, mongodbPrefix)
  \/ HasPrefix(d, fluentdPrefix)

EntryItems(e) ==
  IF e.value.t = "array"
    THEN [i \in 1..Len(e.value.a) |->
            [level |-> e.level, value |-> e.value.a[i], inList |-> TRUE, pos |-> i]]
    ELSE <<[level |-> e.level, value |-> e.value, inList |-> FALSE, pos |-> 1]>>

\* the item at position i of the e-th property of the configuration
ItemAt(cfg, e, i) == EntryItems(cfg[e])[i]

\* the positions of the items of a configuration
Positions(cfg) ==
  UNION {{<<e, i>> : i \in 1..Len(EntryItems(cfg[e]))} : e \in 1..Len(cfg)}

FalsyScalar(it) ==
  /\ ~it.inList
  /\ \/ it.value.t \in {"undefined", "null", "false", "zero"}
     \/ it.value.t = "string" /\ it.value.s = <<>>

\* a descriptor string that names no sink kind
UnknownDescriptor(it) ==
  it.value.t = "string" /\ ~FalsyScalar(it) /\ ~Recognised(it.value.s)

\* the descriptor "mongodb:" with nothing after the prefix
EmptyStoreName(it) == it.value.t = "string" /\ it.value.s = mongodbPrefix

\* a value that is neither falsy, nor a string, nor a list of strings
BadShape(it) == it.value.t # "string" /\ ~FalsyScalar(it)

Invalid(it) == UnknownDescriptor(it) \/ EmptyStoreName(it) \/ BadShape(it)

AnyInvalid(cfg) == \E p \in Positions(cfg) : Invalid(ItemAt(cfg, p[1], p[2]))

\* the item at p is invalid and create meets no invalid item before it
IsFirstInvalid(cfg, p) ==
  /\ Invalid(ItemAt(cfg, p[1], p[2]))
  /\ \A q \in Positions(cfg) :
       (q[1] < p[1] \/ (q[1] = p[1] /\ q[2] < p[2])) => ~Invalid(ItemAt(cfg, q[1], q[2]))

Configured(cfg, l) == \E k \in 1..Len(cfg) : cfg[k].level = l

ValueAt(cfg, l) == cfg[CHOOSE k \in 1..Len(cfg) : cfg[k].level = l].value

AllLevels == ConfigLevels \cup ObjectPrototypeKeys

(***************************************************************************)
(* C5 (as stated): after a successful construction every key of the        *)
(* mapping has at least one sink, and a level that is absent, falsy or     *)
(* configured with an empty list has no key.                               *)
(***************************************************************************)
C5_EveryKeyHasASink ==
  phase = "ready" =>
    /\ \A l \in DOMAIN logger : Len(logger[l]) >= 1
    /\ \A l \in AllLevels :
         (\/ ~Configured(config, l)
          \/ Falsy(ValueAt(config, l))
          \/ ValueAt(config, l) = JsArr(<<>>)) => l \notin DOMAIN logger

(***************************************************************************)
(* C5 (amended): after a successful construction the keys of the mapping   *)
(* are the levels configured with a string or a list; a string gives one   *)
(* sink, a list one sink per element, so an empty list gives a key with    *)
(* no sink; an absent or falsy level has no key.                           *)
(***************************************************************************)
C5_KeysFollowConfiguration ==
  phase = "ready" =>
    /\ DOMAIN logger \subseteq {config[k].level : k \in 1..Len(config)}
    /\ \A l \in AllLevels :
         IF ~Configured(config, l) \/ Falsy(ValueAt(config, l))
           THEN l \notin DOMAIN logger
           ELSE /\ l \in DOMAIN logger
                /\ ValueAt(config, l).t = "string" => Len(logger[l]) = 1
                /\ ValueAt(config, l).t = "array" =>
                     Len(logger[l]) = Len(ValueAt(config, l).a)

C5_Witness ==
  /\ phase = "ready"
  /\ \E l \in DOMAIN logger : logger[l] = <<>>
  /\ \E l \in DOMAIN logger : Len(logger[l]) >= 1

(***************************************************************************)
(* C6: a value of another shape (a truthy non-string scalar, or a list     *)
(* with a non-string element) makes construction fail, and when it is the  *)
(* first invalid item the error is the invalid-option error identifying    *)
(* its level and the value.                                                *)
(***************************************************************************)
C6_BadShapeIsInvalidConfiguration ==
  phase # "constructing" =>
    \A p \in Positions(config) :
      LET it == ItemAt(config, p[1], p[2])
      IN BadShape(it) =>
           /\ phase = "failed"
           /\ IsFirstInvalid(config, p) =>
                /\ error.name = "Error"
                /\ error.msg = "is not valid option"
                /\ error.level = it.level
                /\ error.value \in {it.value, config[p[1]].value}

(***************************************************************************)
(* C7: a descriptor string that is not "stdout", not "stderr" and has      *)
(* neither prefix, alone or at any position of a list, makes construction  *)
(* fail; the error create raises for it (it is the first invalid item      *)
(* create meets) is the invalid-option error naming it and its level.      *)
(***************************************************************************)
C7_UnknownDescriptorRejected ==
  phase # "constructing" =>
    \A p \in Positions(config) :
      LET it == ItemAt(config, p[1], p[2])
      IN UnknownDescriptor(it) =>
           /\ phase = "failed"
           /\ logger = NoLoggers
           /\ IsFirstInvalid(config, p) =>
                error = [name |-> "Error", msg |-> "is not valid option",
                         value |-> it.value, level |-> it.level]

C7_Witness ==
  /\ phase = "failed"
  /\ \E p \in Positions(config) :
       LET it == ItemAt(config, p[1], p[2])
       IN /\ UnknownDescriptor(it)
          /\ IsFirstInvalid(config, p)
          /\ it.inList
          /\ it.pos >= 2
          /\ error.value = it.value

(***************************************************************************)
(* C9: construction is all or nothing: a configuration with an invalid     *)
(* value anywhere, in whichever order the levels are met and however many  *)
(* valid levels it has, ends failed with no mapping; only configurations   *)
(* without one become ready.                                               *)
(***************************************************************************)
C9_AllOrNothing ==
  phase # "constructing" =>
    IF AnyInvalid(config)
      THEN phase = "failed" /\ logger = NoLoggers /\ error # NoErr /\ calls = <<>>
      ELSE phase = "ready" /\ error = NoErr

C9_Witness ==
  /\ phase = "failed"
  /\ Len(config) = 2
  /\ ~Falsy(config[1].value)
  /\ \A k \in 1..Len(EntryItems(config[1])) : ~Invalid(EntryItems(config[1])[k])
  /\ Len(EntryItems(config[1])) >= 1
  /\ \E k \in 1..Len(EntryItems(config[2])) : Invalid(EntryItems(config[2])[k])

(***************************************************************************)
(* C8: the descriptor "mongodb:" with an empty remainder, alone or in a    *)
(* list and under any level, keeps construction from ever becoming ready,  *)
(* so no emit call is made; the error create raises for it (it is the      *)
(* first invalid item create meets) is the empty-collection error.  With a *)
(* non-empty remainder the sink is a mongodb sink whose collection name is *)
(* the remainder.                                                          *)
(***************************************************************************)
C8_EmptyStoreNameRejected ==
  \A p \in Positions(config) :
    LET it == ItemAt(config, p[1], p[2])
    IN /\ EmptyStoreName(it) =>
            /\ phase \in {"constructing", "failed"}
            /\ calls = <<>>
            /\ logger = NoLoggers
            /\ (phase = "failed" /\ IsFirstInvalid(config, p)) => error = EmptyCollection
       /\ (phase = "ready" /\ it.value.t = "string" /\ HasPrefix(it.value.s, mongodbPrefix)) =>
            /\ logger[it.level][p[2]].kind = "mongodb"
            /\ logger[it.level][p[2]].collectionName = DropPrefix(it.value.s, mongodbPrefix)
            /\ logger[it.level][p[2]].collectionName # <<>>

C8_Witness ==
  /\ phase = "failed"
  /\ error = EmptyCollection
  /\ \E p \in Positions(config) :
       /\ EmptyStoreName(ItemAt(config, p[1], p[2]))
       /\ ItemAt(config, p[1], p[2]).inList
       /\ p[2] >= 2

(***************************************************************************)
(* C1: for an emit call that started N >= 1 sink operations, the signal    *)
(* is successful exactly when all N operations have completed              *)
(* successfully: never while one is in flight or has failed.               *)
(***************************************************************************)
C1_SuccessIffAllSucceed ==
  \A c \in 1..Len(calls) :
    Len(calls[c].ops) >= 1 =>
      (calls[c].signal.state = "success"
         <=> \A i \in 1..Len(calls[c].ops) : calls[c].ops[i].state = "ok")

C1_Witness ==
  \E c \in 1..Len(calls) :
    /\ Configured(config, calls[c].level)
    /\ ValueAt(config, calls[c].level).t = "array"
    /\ Len(calls[c].ops) = 2
    /\ \A i \in 1..2 : calls[c].ops[i].kind \in {"mongodb", "fluentd"}
    /\ \A i \in 1..2 : calls[c].ops[i].state = "ok"
    /\ calls[c].signal.state = "success"

(***************************************************************************)
(* C2: as soon as one sink operation of an emit call has failed the signal *)
(* is failed, whatever the state of the sibling operations, and the        *)
(* failure it carries is the failure of a failed sink of that call; the    *)
(* signal is failed only if a sink has failed.                             *)
(***************************************************************************)
C2_FailsWithTheSinksFailure ==
  \A c \in 1..Len(calls) :
    LET call == calls[c]
        failed == {i \in 1..Len(call.ops) : call.ops[i].state = "failed"}
    IN /\ failed # {} => call.signal.state = "failed"
       /\ call.signal.state = "failed" =>
            /\ call.signal.err.op \in failed
            /\ call.signal.err = call.ops[call.signal.err.op].err
            /\ call.signal.err = FailureOf(c, call.signal.err.op)
            /\ Cardinality(failed) = 1 =>
                 \A i \in failed : call.signal.err = call.ops[i].err

C2_Witness ==
  \E c \in 1..Len(calls) :
    /\ Len(calls[c].ops) = 2
    /\ calls[c].ops[1].state = "inflight"
    /\ calls[c].ops[2].state = "failed"
    /\ calls[c].signal = Failed(FailureOf(c, 2))

(***************************************************************************)
(* C3: an emit call on a level that has no property in the configuration,  *)
(* whatever string the level is, returns an already successful signal and  *)
(* starts no sink operation.                                               *)
(***************************************************************************)
C3_AbsentLevelSucceeds ==
  \A c \in 1..Len(calls) :
    ~Configured(config, calls[c].level) =>
      /\ calls[c].returned = "success"
      /\ calls[c].signal = Succeeded
      /\ calls[c].ops = <<>>

(***************************************************************************)
(* C4: no emit call ends in a synchronous throw: every call returns a      *)
(* signal.                                                                 *)
(***************************************************************************)
C4_EmitNeverThrows ==
  \A c \in 1..Len(calls) :
    /\ calls[c].returned \in {"success", "pending"}
    /\ calls[c].signal.state \in {"pending", "success", "failed"}

(***************************************************************************)
(* C10: an 'error' event of a sender whose code is ECONNRESET or           *)
(* ECONNREFUSED, whenever and however often it comes, leaves the process   *)
(* running and every emit call, in flight or settled, as it was.           *)
(***************************************************************************)
C10_ConnectionErrorsSwallowed ==
  [][(lastEvent' # lastEvent /\ lastEvent' \in {"ECONNRESET", "ECONNREFUSED"})
       => (~crashed' /\ calls' = calls /\ logger' = logger /\ phase' = phase)]_vars

C10_Witness ==
  /\ lastEvent = "ECONNREFUSED"
  /\ ~crashed
  /\ \E c \in 1..Len(calls) : \E i \in 1..Len(calls[c].ops) :
       calls[c].ops[i].kind = "fluentd" /\ calls[c].ops[i].state = "inflight"
  /\ \E c \in 1..Len(calls) : \E i \in 1..Len(calls[c].ops) :
       calls[c].ops[i].kind = "mongodb" /\ calls[c].ops[i].state = "ok"

(***************************************************************************)
(* C11: once construction has ended, nothing changes the dispatcher: no    *)
(* emit call (successful, failed, or on an unconfigured level), no         *)
(* completion and no later change of the configuration object alters the   *)
(* phase or adds, removes, reorders or replaces a level or a sink of the   *)
(* mapping; the phase never returns to under construction.                 *)
(***************************************************************************)
C11_ReadyIsImmutable ==
  [][phase # "constructing" => (phase' = phase /\ logger' = logger)]_vars

C11_Witness ==
  /\ phase = "ready"
  /\ logger # NoLoggers
  /\ \E l \in DOMAIN logger : ~Configured(config, l)
  /\ \E c \in 1..Len(calls) : calls[c].signal.state = "failed"
  /\ \E c \in 1..Len(calls) : calls[c].ops = <<>> /\ calls[c].returned = "success"

(***************************************************************************)
(* C12: concurrent emit calls are independent.  A step in which the sink   *)
(* operations of a call do not change leaves that call's signal as it was, *)
(* whatever happens to the operations of the other calls, and in every     *)
(* state the signal of a call is what its own operations make it: failed   *)
(* once one of them has failed, successful once all have succeeded,        *)
(* pending while one is in flight and none has failed.                     *)
(***************************************************************************)
OwnOutcome(ops) ==
  IF \E i \in 1..Len(ops) : ops[i].state = "failed" THEN "failed"
  ELSE IF \A i \in 1..Len(ops) : ops[i].state = "ok" THEN "success"
  ELSE "pending"

C12_CallsAreIndependent ==
  /\ [](\A c \in 1..Len(calls) :
          calls[c].returned # "TypeError" =>
            /\ calls[c].signal.state = OwnOutcome(calls[c].ops)
            /\ calls[c].signal.err.call \in {0, c})
  /\ [][/\ Len(calls') >= Len(calls)
        /\ \A c \in 1..Len(calls) :
             calls'[c].ops = calls[c].ops => calls'[c] = calls[c]]_vars

C12_Witness ==
  \E c, d \in 1..Len(calls) :
    /\ c # d
    /\ calls[c].level = calls[d].level
    /\ Len(calls[c].ops) = 2
    /\ calls[c].ops[1].state = "failed"
    /\ calls[c].ops[2].state = "inflight"
    /\ calls[c].signal.state = "failed"
    /\ Len(calls[d].ops) = 2
    /\ \A i \in 1..2 : calls[d].ops[i].kind \in {"mongodb", "fluentd"}
    /\ calls[d].signal.state = "success"

(***************************************************************************)
(* C13: an emit call on a level configured with a descriptor string has    *)
(* started exactly one sink operation, and on a level configured with a    *)
(* list of N descriptors exactly N, one on each sink of the level: the     *)
(* i-th operation is the log of the i-th sink, and all of them exist from  *)
(* the state in which emit has returned.                                   *)
(***************************************************************************)
C13_OneOperationPerSink ==
  \A c \in 1..Len(calls) :
    LET l == calls[c].level
    IN (Configured(config, l) /\ ~Falsy(ValueAt(config, l))) =>
         /\ l \in DOMAIN logger
         /\ calls[c].returned = "pending"
         /\ isString(ValueAt(config, l)) => Len(calls[c].ops) = 1
         /\ isArray(ValueAt(config, l)) => Len(calls[c].ops) = Len(ValueAt(config, l).a)
         /\ Len(calls[c].ops) = Len(logger[l])
         /\ \A i \in 1..Len(logger[l]) :
              /\ calls[c].ops[i].kind = logger[l][i].kind
              /\ calls[c].ops[i].level = logger[l][i].level

C13_Witness ==
  \E c \in 1..Len(calls) :
    /\ Configured(config, calls[c].level)
    /\ isArray(ValueAt(config, calls[c].level))
    /\ Len(ValueAt(config, calls[c].level).a) = 2
    /\ Len(calls[c].ops) = 2
    /\ calls[c].ops[1].state = "inflight"
    /\ calls[c].ops[2].state = "inflight"

(***************************************************************************)
(* C14: after a successful construction, a level configured with a list of *)
(* descriptors has a sink list of the same length whose i-th sink is the   *)
(* sink of the i-th descriptor: of the kind the descriptor names, bound to *)
(* the level, and for a document-store descriptor writing to the           *)
(* collection it names.  Equal descriptors give one sink each.             *)
(***************************************************************************)
KindOf(d) ==
  IF d = stdoutName THEN "stdout"
  ELSE IF d = stderrName THEN "stderr"
  ELSE IF HasPrefix(d, mongodbPrefix) THEN "mongodb"
  ELSE IF HasPrefix(d, fluentdPrefix) THEN "fluentd"
  ELSE "none"

SinkIsFor(sink, d, l) ==
  /\ sink.kind = KindOf(d)
  /\ sink.level = l
  /\ sink.kind = "mongodb" => sink.collectionName = DropPrefix(d, mongodbPrefix)

C14_ListOrderPreserved ==
  phase = "ready" =>
    \A e \in 1..Len(config) :
      config[e].value.t = "array" =>
        /\ config[e].level \in DOMAIN logger
        /\ Len(logger[config[e].level]) = Len(config[e].value.a)
        /\ \A i \in 1..Len(config[e].value.a) :
             /\ config[e].value.a[i].t = "string"
             /\ SinkIsFor(logger[config[e].level][i], config[e].value.a[i].s, config[e].level)

C14_Witness ==
  /\ phase = "ready"
  /\ \E e \in 1..Len(config) :
       /\ config[e].value.t = "array"
       /\ Len(config[e].value.a) = 3
       /\ config[e].value.a[1] = config[e].value.a[3]
       /\ KindOf(config[e].value.a[1].s) = "mongodb"
       /\ KindOf(config[e].value.a[2].s) = "fluentd"
       /\ Len(logger[config[e].level]) = 3
       /\ logger[config[e].level][1] = logger[config[e].level][3]
       /\ logger[config[e].level][2].kind = "fluentd"

(***************************************************************************)
(* Host and port of a remote-collector descriptor, read off the text after *)
(* the prefix.                                                             *)
(***************************************************************************)
Colons(r) == {k \in 1..Len(r) : r[k] = ":"}

FirstColon(r) == CHOOSE k \in Colons(r) : \A j \in Colons(r) : k <= j

SecondColon(r) ==
  CHOOSE k \in Colons(r) \ {FirstColon(r)} : \A j \in Colons(r) \ {FirstColon(r)} : k <= j

FluentdPositions(cfg) ==
  {p \in Positions(cfg) :
     /\ ItemAt(cfg, p[1], p[2]).value.t = "string"
     /\ HasPrefix(ItemAt(cfg, p[1], p[2]).value.s, fluentdPrefix)}

SinkAt(cfg, map, p) == map[ItemAt(cfg, p[1], p[2]).level][p[2]]

Remainder(cfg, p) == DropPrefix(ItemAt(cfg, p[1], p[2]).value.s, fluentdPrefix)

(***************************************************************************)
(* C15 (as stated): the text after "fluentd:" is split once at its first   *)
(* ':': the host is the text before it and the port is all of the text     *)
(* after it, also when the text holds more than one ':'.                   *)
(***************************************************************************)
C15_SplitOnceAtFirstColon ==
  phase = "ready" =>
    \A p \in FluentdPositions(config) :
      LET r == Remainder(config, p)
          sink == SinkAt(config, logger, p)
      IN /\ sink.kind = "fluentd"
         /\ Colons(r) # {} =>
              /\ sink.host = JsStr(SubSeq(r, 1, FirstColon(r) - 1))
              /\ sink.port = JsStr(SubSeq(r, FirstColon(r) + 1, Len(r)))

(***************************************************************************)
(* What split(':') with [0] and [1] gives instead: the text is cut at every *)
(* ':'; the host is the text before the first ':' (all of it when there is *)
(* none) and the port is the text between the first and the second ':'     *)
(* (up to the end when there is no second, undefined when there is no ':'  *)
(* at all); what follows a second ':' is dropped.                          *)
(***************************************************************************)
FluentdSplitsAtEveryColon ==
  phase = "ready" =>
    \A p \in FluentdPositions(config) :
      LET r == Remainder(config, p)
          sink == SinkAt(config, logger, p)
      IN /\ sink.kind = "fluentd"
         /\ sink.host = IF Colons(r) = {} THEN JsStr(r)
                        ELSE JsStr(SubSeq(r, 1, FirstColon(r) - 1))
         /\ sink.port = IF Colons(r) = {} THEN Undefined
                        ELSE IF Cardinality(Colons(r)) = 1
                          THEN JsStr(SubSeq(r, FirstColon(r) + 1, Len(r)))
                        ELSE JsStr(SubSeq(r, FirstColon(r) + 1, SecondColon(r) - 1))

FluentdTextAfterSecondColonDropped ==
  /\ phase = "ready"
  /\ \E p \in FluentdPositions(config) :
       /\ Cardinality(Colons(Remainder(config, p))) = 2
       /\ SinkAt(config, logger, p).host = JsStr(<<"h">>)
       /\ SinkAt(config, logger, p).port = JsStr(<<"1">>)

(***************************************************************************)
(* C16: a level whose configuration value is falsy is skipped: the         *)
(* construction does not fail unless another item is invalid, the mapping  *)
(* gets no entry for the level, and every emit call on the level returns   *)
(* an already successful signal without starting a sink operation.         *)
(***************************************************************************)
FalsyLevel(cfg, l) == Configured(cfg, l) /\ Falsy(ValueAt(cfg, l))

C16_FalsyLevelIsSkipped ==
  \A l \in EmitLevels :
    FalsyLevel(config, l) =>
      /\ phase = "failed" => AnyInvalid(config)
      /\ l \notin DOMAIN logger
      /\ \A c \in 1..Len(calls) :
           calls[c].level = l =>
             /\ calls[c].returned = "success"
             /\ calls[c].signal = Succeeded
             /\ calls[c].ops = <<>>

(***************************************************************************)
(* The same for the levels that do not name a property every object        *)
(* inherits: this part holds.                                              *)
(***************************************************************************)
FalsyOrdinaryLevelIsSkipped ==
  \A l \in EmitLevels \ ObjectPrototypeKeys :
    FalsyLevel(config, l) =>
      /\ phase = "failed" => AnyInvalid(config)
      /\ l \notin DOMAIN logger
      /\ \A c \in 1..Len(calls) :
           calls[c].level = l =>
             /\ calls[c].returned = "success"
             /\ calls[c].signal = Succeeded
             /\ calls[c].ops = <<>>

(***************************************************************************)
(* C17: the listener registered at the sink's construction handles every   *)
(* 'error' event of the sender, the first and each later one alike: the    *)
(* event is rethrown, ending the process, exactly when its code is neither *)
(* ECONNRESET nor ECONNREFUSED.                                            *)
(***************************************************************************)
C17_ListenerStaysAndFilters ==
  [][lastEvent' # lastEvent
       => (crashed' <=> lastEvent' \notin {"ECONNRESET", "ECONNREFUSED"})]_vars

C17_Witness ==
  /\ lastEvent = "EPIPE"
  /\ crashed
  /\ \E l \in DOMAIN logger : \E i \in 1..Len(logger[l]) : logger[l][i].kind = "fluentd"
  /\ \E c \in 1..Len(calls) : \E i \in 1..Len(calls[c].ops) :
       calls[c].ops[i].kind = "fluentd" /\ calls[c].ops[i].state = "inflight"

(***************************************************************************)
(* C18: within one emit call the log calls are made in the order of the    *)
(* level's sink list, the i-th sink being the i-th started, and all of     *)
(* them are made before emit returns: from the state in which the call has *)
(* returned every sink has its operation, the later ones started while the *)
(* earlier ones are still in flight.                                       *)
(***************************************************************************)
C18_StartedInOrderBeforeReturn ==
  \A c \in 1..Len(calls) :
    calls[c].returned = "pending" =>
      /\ calls[c].level \in DOMAIN logger
      /\ Len(calls[c].ops) = Len(logger[calls[c].level])
      /\ \A i \in 1..Len(calls[c].ops) :
           /\ calls[c].ops[i].seq \in 1..Len(calls[c].ops)
           /\ calls[c].ops[i].kind = logger[calls[c].level][i].kind
      /\ \A i, j \in 1..Len(calls[c].ops) :
           i < j => calls[c].ops[i].seq < calls[c].ops[j].seq

C18_Witness ==
  \E c \in 1..Len(calls) :
    /\ Len(calls[c].ops) = 2
    /\ calls[c].ops[1].kind = "mongodb" /\ calls[c].ops[1].state = "inflight"
    /\ calls[c].ops[2].kind = "fluentd" /\ calls[c].ops[2].state = "inflight"
    /\ calls[c].ops[1].seq = 1
    /\ calls[c].ops[2].seq = 2
    /\ calls[c].signal = Pending

(***************************************************************************)
(* C19: routing isolation.  Every sink of the mapping is bound to the      *)
(* level under whose key it is stored, so sinks of two levels differ even  *)
(* when their descriptors are equal, and every operation an emit call on   *)
(* level L starts is the log of a sink of L, tagged with L.                *)
(***************************************************************************)
C19_RoutingIsolation ==
  /\ \A l \in DOMAIN logger : \A i \in 1..Len(logger[l]) : logger[l][i].level = l
  /\ \A l1, l2 \in DOMAIN logger :
       l1 # l2 => \A i \in 1..Len(logger[l1]), j \in 1..Len(logger[l2]) :
                    logger[l1][i] # logger[l2][j]
  /\ \A c \in 1..Len(calls) : \A i \in 1..Len(calls[c].ops) :
       /\ calls[c].ops[i].level = calls[c].level
       /\ calls[c].level \in DOMAIN logger
       /\ i <= Len(logger[calls[c].level])
       /\ calls[c].ops[i].kind = logger[calls[c].level][i].kind

C19_Witness ==
  /\ Configured(config, "info") /\ Configured(config, "error")
  /\ ValueAt(config, "info") = ValueAt(config, "error")
  /\ ValueAt(config, "info") = JsStr(fluentdPrefix \o <<"h", ":", "1">>)
  /\ Len(calls) = 2
  /\ calls[1].level = "info" /\ calls[2].level = "error"
  /\ calls[1].ops[1].level = "info" /\ calls[2].ops[1].level = "error"
  /\ calls[1].ops[1].kind = "fluentd" /\ calls[2].ops[1].kind = "fluentd"

(***************************************************************************)
(* C20: when every operation a sink has started is eventually completed,   *)
(* with success or with failure, the signal of every emit call that        *)
(* returned one is eventually resolved, and a resolved signal never        *)
(* changes again, neither its state nor the failure it carries.            *)
(***************************************************************************)
Resolved(c) == c <= Len(calls) /\ calls[c].signal.state \in {"success", "failed"}

C20_ResolvesEventuallyAndOnce ==
  /\ \A c \in 1..MaxCalls :
       (c <= Len(calls) /\ calls[c].returned = "pending") ~> Resolved(c)
  /\ [][\A c \in 1..Len(calls) :
          Resolved(c) => calls'[c].signal = calls[c].signal]_vars

C20_Witness ==
  \E c \in 1..Len(calls) :
    /\ Len(calls[c].ops) = 2
    /\ calls[c].ops[1].state = "failed"
    /\ calls[c].ops[2].state = "failed"
    /\ calls[c].signal = Failed(FailureOf(c, 2))
    /\ ~crashed

====
